---- MODULE Spec2Model ----
(***************************************************************************)
(* Talker.js: a handshake-gated, promise-based message channel between two *)
(* windows over window.postMessage (src/src/talker.js).                    *)
(*                                                                         *)
(* Two Talker instances, A and B, live in two windows.  Each instance owns *)
(* handshaken, the handshake promise, _id, _queue and _sent.  The model    *)
(* adds the promise returned by each send (future), the armed setTimeout   *)
(* timers, the events in flight to each window, and history variables that *)
(* record what the transport and the onMessage callback observed.          *)
(***************************************************************************)
EXTENDS Naturals, Sequences, FiniteSets

VARIABLES
    constructed,    \* c: the Talker of window c exists and listens for 'message'
    remoteWindow,   \* this.remoteWindow
    remoteOrigin,   \* this.remoteOrigin
    onMessage,      \* whether this.onMessage is set
    handshaken,     \* this.handshaken
    handshake,      \* state of the this.handshake promise
    _id,            \* this._id
    _queue,         \* this._queue
    _sent,          \* keys of this._sent
    future,         \* the promise returned by send, per message id
    timers,         \* ids whose setTimeout has not fired yet
    inflight,       \* message events dispatched to the window, not yet handled
    posted,         \* history: payloads given to remoteWindow.postMessage
    lost,           \* history: number of posts that reached no listener
    created,        \* history: the OutgoingMessages constructed, in order
    onMessageLog,   \* history: the messages onMessage was called with
    idAtHandshake,  \* history: value of _id when handshaken became true
    expired,        \* history: ids whose timer fired while the message was still in _queue
    foreign,        \* history: number of events received that the peer's Talker did not post
    lastDrop        \* history: why _receiveMessage rejected the last event it rejected

vars == <<constructed, remoteWindow, remoteOrigin, onMessage, handshaken, handshake,
          _id, _queue, _sent, future, timers, inflight, posted, lost, created,
          onMessageLog, idAtHandshake, expired, foreign, lastDrop>>

\* The variables that make up one Talker and what it has shown to the outside.
chanVars == <<constructed, remoteWindow, remoteOrigin, onMessage, handshaken, handshake,
              _id, _queue, _sent, future, timers, posted, lost, created,
              onMessageLog, idAtHandshake, expired>>

----------------------------------------------------------------------------
\* Bounds of the model.

\* Number of inputs over both windows together: send and respond calls, and
\* events that the peer's Talker did not post.
MaxInputs == 2

----------------------------------------------------------------------------
\* Constants of the program and of its environment.

TALKER_TYPE == "application/x-talkerjs-v1+json"
TALKER_ERR_TIMEOUT == "timeout"

Chan == {"A", "B"}
Peer(c) == IF c = "A" THEN "B" ELSE "A"
Null == "null"
Other == "other"
Wildcard == "*"
Origin(w) == IF w = "A" THEN "https://a.example" ELSE "https://b.example"
OtherOrigin == "https://x.example"

\* Message ids any Talker can assign within the bound.
Ids == 1..MaxInputs

----------------------------------------------------------------------------
\* Wire objects.  Every parsed object carries the same fields; a field the
\* JavaScript object lacks (undefined) is FALSE for the flags and 0 for the ids,
\* which JavaScript treats as falsy as well.  0 also stands for a null
\* responseToId.

\* What JSON.parse failure leaves: object = {}.
EmptyObject ==
    [type |-> "undefined", handshake |-> FALSE, handshakeConfirmation |-> FALSE,
     id |-> 0, responseToId |-> 0]

\* The message built by _sendHandshake.
HandshakeObject(confirmation) ==
    [type |-> TALKER_TYPE, handshake |-> ~confirmation,
     handshakeConfirmation |-> confirmation, id |-> 0, responseToId |-> 0]

\* Talker.OutgoingMessage.prototype.toJSON
toJSON(message) ==
    [type |-> TALKER_TYPE, handshake |-> FALSE, handshakeConfirmation |-> FALSE,
     id |-> message.id, responseToId |-> message.responseToId]

\* JSON.stringify(data) in _postMessage: a payload string that parses back.
Stringify(object) == [parsable |-> TRUE, object |-> object]

\* A payload that is not JSON.
Garbage == [parsable |-> FALSE, object |-> EmptyObject]

\* The try/catch around JSON.parse in _receiveMessage.
Parse(data) == IF data.parsable THEN data.object ELSE EmptyObject

\* A MessageEvent.
Event(source, origin, data) == [source |-> source, origin |-> origin, data |-> data]

----------------------------------------------------------------------------
\* The promise returned by send: Promise.race of the response promise and the
\* timeout promise.  A promise settles once; settling it again does nothing.

\* value is the id of the IncomingMessage the promise resolved with, error the
\* message of the Error it was rejected with.
Unsent == [state |-> "none", value |-> 0, error |-> ""]
Pending == [state |-> "pending", value |-> 0, error |-> ""]
Resolved(message) == [state |-> "resolved", value |-> message.id, error |-> ""]
Rejected == [state |-> "rejected", value |-> 0, error |-> TALKER_ERR_TIMEOUT]

\* A promise that lets a later settlement replace an earlier one.
SettleAgain(f, outcome) == outcome

Settle(f, outcome) == IF f.state = "pending" THEN outcome ELSE f

----------------------------------------------------------------------------
\* The state of one Talker as the handlers read and write it, with out: the
\* objects handed to _postMessage during the current handler, in order.

Cur(c) ==
    [handshaken |-> handshaken[c], handshake |-> handshake[c], _queue |-> _queue[c],
     _sent |-> _sent[c], future |-> future[c], log |-> onMessageLog[c], out |-> <<>>]

\* Talker.prototype._sendHandshake
_sendHandshake(s, confirmation) ==
    [s EXCEPT !.out = Append(@, HandshakeObject(confirmation))]

\* _flushQueue taking the newest message first (pop for shift).
RECURSIVE _flushQueuePop(_)
_flushQueuePop(s) ==
    IF s.handshaken
    THEN IF s._queue = <<>>
         THEN s
         ELSE LET n == Len(s._queue)
                  t == [s EXCEPT !._queue = SubSeq(@, 1, n - 1),
                                 !.out = Append(@, toJSON(s._queue[n]))]
              IN  IF Len(t._queue) > 0 THEN _flushQueuePop(t) ELSE t
    ELSE s

\* _flushQueue without the test of this.handshaken.
RECURSIVE _flushQueueUnguarded(_)
_flushQueueUnguarded(s) ==
    IF s._queue = <<>>
    THEN s
    ELSE LET t == [s EXCEPT !._queue = Tail(@),
                            !.out = Append(@, toJSON(Head(s._queue)))]
         IN  IF Len(t._queue) > 0 THEN _flushQueueUnguarded(t) ELSE t

\* _flushQueue without the recursive call: one message per flush.
_flushQueueOnce(s) ==
    IF s.handshaken /\ s._queue # <<>>
    THEN [s EXCEPT !._queue = Tail(@), !.out = Append(@, toJSON(Head(s._queue)))]
    ELSE s

\* _flushQueue discarding the messages whose promise was already rejected.
RECURSIVE _flushQueueSkipExpired(_)
_flushQueueSkipExpired(s) ==
    IF s.handshaken
    THEN IF s._queue = <<>>
         THEN s
         ELSE LET message == Head(s._queue)
                  t == [s EXCEPT !._queue = Tail(@),
                                 !.out = IF s.future[message.id].state = "rejected"
                                         THEN @
                                         ELSE Append(@, toJSON(message))]
              IN  IF Len(t._queue) > 0 THEN _flushQueueSkipExpired(t) ELSE t
    ELSE s

\* Talker.prototype._flushQueue
RECURSIVE _flushQueue(_)
_flushQueue(s) ==
    IF s.handshaken
    THEN IF s._queue = <<>>
         THEN s
         ELSE LET t == [s EXCEPT !._queue = Tail(@),
                                 !.out = Append(@, toJSON(Head(s._queue)))]
              IN  IF Len(t._queue) > 0 THEN _flushQueue(t) ELSE t
    ELSE s

\* _handleHandshake without the reply to a handshake request.
_handleHandshakeNoReply(s, object) ==
    _flushQueue([s EXCEPT !.handshaken = TRUE, !.handshake = "resolved"])

\* _handleHandshake replying to every handshake message, confirmations included.
_handleHandshakeReplyAll(s, object) ==
    LET s1 == _sendHandshake(s, s.handshaken)
        s2 == [s1 EXCEPT !.handshaken = TRUE, !.handshake = "resolved"]
    IN  _flushQueue(s2)

\* _handleHandshake answering every request with a confirmation.
_handleHandshakeConfirm(s, object) ==
    LET s1 == IF object.handshake THEN _sendHandshake(s, TRUE) ELSE s
        s2 == [s1 EXCEPT !.handshaken = TRUE, !.handshake = "resolved"]
    IN  _flushQueue(s2)

\* _handleHandshake answering every request with another request.
_handleHandshakeRequest(s, object) ==
    LET s1 == IF object.handshake THEN _sendHandshake(s, FALSE) ELSE s
        s2 == [s1 EXCEPT !.handshaken = TRUE, !.handshake = "resolved"]
    IN  _flushQueue(s2)

\* _handleHandshake replying after the flush instead of before it.
_handleHandshakeFlushFirst(s, object) ==
    LET s1 == _flushQueue([s EXCEPT !.handshaken = TRUE, !.handshake = "resolved"])
    IN  IF object.handshake THEN _sendHandshake(s1, s.handshaken) ELSE s1

\* _handleHandshake flipping handshaken instead of setting it.
_handleHandshakeToggle(s, object) ==
    LET s1 == IF object.handshake THEN _sendHandshake(s, s.handshaken) ELSE s
        s2 == [s1 EXCEPT !.handshaken = ~s.handshaken, !.handshake = "resolved"]
    IN  _flushQueue(s2)

\* Talker.prototype._handleHandshake
_handleHandshake(s, object) ==
    LET s1 == IF object.handshake THEN _sendHandshake(s, s.handshaken) ELSE s
        s2 == [s1 EXCEPT !.handshaken = TRUE, !.handshake = "resolved"]
    IN  _flushQueue(s2)

\* Talker.IncomingMessage, with the responseToId of the raw object it was
\* built from kept beside it for the record.
IncomingMessage(rawObject) == [id |-> rawObject.id, responseToId |-> rawObject.responseToId]

\* _respondToMessage without the delete.
_respondToMessageKeep(s, id, message) ==
    IF id \in s._sent
    THEN [s EXCEPT !.future[id] = Settle(@, Resolved(message))]
    ELSE s

\* Talker.prototype._respondToMessage
_respondToMessage(s, id, message) ==
    IF id \in s._sent
    THEN [s EXCEPT !.future[id] = Settle(@, Resolved(message)),
                   !._sent = @ \ {id}]
    ELSE s

\* Talker.prototype._broadcastMessage
_broadcastMessage(c, s, message) ==
    IF onMessage[c] THEN [s EXCEPT !.log = Append(@, message)] ELSE s

\* _handleMessage routing by the pending entry: a response whose send is no
\* longer pending goes to onMessage.
_handleMessageByEntry(c, s, rawObject) ==
    LET message == IncomingMessage(rawObject)
        responseId == rawObject.responseToId
    IN  IF responseId # 0 /\ responseId \in s._sent
           /\ s.future[responseId].state = "pending"
        THEN _respondToMessage(s, responseId, message)
        ELSE _broadcastMessage(c, s, message)

\* _handleMessage correlating by the message's own id when it names no
\* responseToId.
_handleMessageById(c, s, rawObject) ==
    LET message == IncomingMessage(rawObject)
        responseId == rawObject.responseToId
    IN  IF responseId # 0
        THEN _respondToMessage(s, responseId, message)
        ELSE IF rawObject.id \in s._sent
             THEN _respondToMessage(s, rawObject.id, message)
             ELSE _broadcastMessage(c, s, message)

\* Talker.prototype._handleMessage
_handleMessage(c, s, rawObject) ==
    LET message == IncomingMessage(rawObject)
        responseId == rawObject.responseToId
    IN  IF responseId # 0
        THEN _respondToMessage(s, responseId, message)
        ELSE _broadcastMessage(c, s, message)

\* _isSafeMessage without the test of the type.
_isSafeMessageAnyType(c, source, origin, type) ==
    LET safeSource == source = remoteWindow[c]
        safeOrigin == (remoteOrigin[c] = Wildcard) \/ (origin = remoteOrigin[c])
    IN  safeSource /\ safeOrigin

\* Talker.prototype._isSafeMessage
_isSafeMessage(c, source, origin, type) ==
    LET safeSource == source = remoteWindow[c]
        safeOrigin == (remoteOrigin[c] = Wildcard) \/ (origin = remoteOrigin[c])
        safeType == type = TALKER_TYPE
    IN  safeSource /\ safeOrigin /\ safeType

\* Talker.prototype._receiveMessage
_receiveMessage(c, messageEvent) ==
    LET object == Parse(messageEvent.data)
        isHandshake == object.handshake \/ object.handshakeConfirmation
    IN  IF ~_isSafeMessage(c, messageEvent.source, messageEvent.origin, object.type)
        THEN Cur(c)
        ELSE IF isHandshake
             THEN _handleHandshake(Cur(c), object)
             ELSE _handleMessage(c, Cur(c), object)

----------------------------------------------------------------------------
\* The transport.

\* _postMessage without the test of remoteWindow and remoteOrigin.
_postMessageUnguarded(win, origin, out) ==
    [i \in 1..Len(out) |-> Stringify(out[i])]

\* Talker.prototype._postMessage, applied to the objects a handler handed to it:
\* the payloads that remoteWindow.postMessage is called with.
_postMessage(win, origin, out) ==
    IF win # Null /\ origin # ""
    THEN [i \in 1..Len(out) |-> Stringify(out[i])]
    ELSE <<>>

\* window.postMessage(payload, targetOrigin) called from window c: the event is
\* dispatched when the target's origin matches targetOrigin, and is handled only
\* when the target has a Talker listening (window.addEventListener in Talker).
Reaches(win, origin) ==
    /\ win \in Chan
    /\ constructed[win]
    /\ origin \in {Wildcard, Origin(win)}

\* The events window c's posts put in flight.
Dispatched(c, win, origin, payloads) ==
    IF Reaches(win, origin)
    THEN [i \in 1..Len(payloads) |-> Event(c, Origin(c), payloads[i])]
    ELSE <<>>

\* Events a window can receive that the peer's Talker did not post: from a third
\* window, from the peer's window showing another origin or running other code,
\* and synthetic events (source null or origin '').
DataObject(type, id, responseToId) ==
    [type |-> type, handshake |-> FALSE, handshakeConfirmation |-> FALSE,
     id |-> id, responseToId |-> responseToId]

\* A handshake request that also names message 1 as the one it answers.
FlaggedObject(type) ==
    [type |-> type, handshake |-> TRUE, handshakeConfirmation |-> FALSE,
     id |-> 1, responseToId |-> 1]

ForeignEvents(c) ==
    << Event(Other, Origin(Peer(c)), Stringify(FlaggedObject(TALKER_TYPE))),
       Event(Other, Origin(Peer(c)), Stringify(DataObject(TALKER_TYPE, 1, 1))),
       Event(Peer(c), OtherOrigin, Stringify(FlaggedObject(TALKER_TYPE))),
       Event(Peer(c), Origin(Peer(c)), Stringify(FlaggedObject("text/plain"))),
       Event(Peer(c), Origin(Peer(c)), Garbage),
       Event(Null, "", Stringify(HandshakeObject(FALSE))),
       Event(Peer(c), "", Stringify(HandshakeObject(FALSE))) >>

NoDrop == [chan |-> "none", why |-> "none"]

\* Which check of _isSafeMessage an event fails first at window c, for the record.
Why(c, messageEvent) ==
    IF messageEvent.source # remoteWindow[c] THEN "source"
    ELSE IF remoteOrigin[c] # Wildcard /\ messageEvent.origin # remoteOrigin[c] THEN "origin"
    ELSE IF ~messageEvent.data.parsable THEN "parse"
    ELSE "type"

----------------------------------------------------------------------------
\* Initial state: neither window has constructed its Talker yet.

NoFutures == [k \in Ids |-> Unsent]

Init ==
    /\ constructed = [c \in Chan |-> FALSE]
    /\ remoteWindow = [c \in Chan |-> Null]
    /\ remoteOrigin = [c \in Chan |-> ""]
    /\ onMessage = [c \in Chan |-> FALSE]
    /\ handshaken = [c \in Chan |-> FALSE]
    /\ handshake = [c \in Chan |-> "pending"]
    /\ _id = [c \in Chan |-> 0]
    /\ _queue = [c \in Chan |-> <<>>]
    /\ _sent = [c \in Chan |-> {}]
    /\ future = [c \in Chan |-> NoFutures]
    /\ timers = [c \in Chan |-> {}]
    /\ inflight = [c \in Chan |-> <<>>]
    /\ posted = [c \in Chan |-> <<>>]
    /\ lost = [c \in Chan |-> 0]
    /\ created = [c \in Chan |-> <<>>]
    /\ onMessageLog = [c \in Chan |-> <<>>]
    /\ idAtHandshake = [c \in Chan |-> 0]
    /\ expired = [c \in Chan |-> {}]
    /\ foreign = 0
    /\ lastDrop = NoDrop

\* Writes back the Talker state s a handler of window c left, posts s.out, and
\* puts the resulting events in flight on top of infl; win and origin are the
\* Talker's remoteWindow and remoteOrigin.
Commit(c, win, origin, s, infl) ==
    LET payloads == _postMessage(win, origin, s.out)
        events == Dispatched(c, win, origin, payloads)
    IN  /\ handshaken' = [handshaken EXCEPT ![c] = s.handshaken]
        /\ handshake' = [handshake EXCEPT ![c] = s.handshake]
        /\ _queue' = [_queue EXCEPT ![c] = s._queue]
        /\ _sent' = [_sent EXCEPT ![c] = s._sent]
        /\ future' = [future EXCEPT ![c] = s.future]
        /\ onMessageLog' = [onMessageLog EXCEPT ![c] = s.log]
        /\ posted' = [posted EXCEPT ![c] = @ \o payloads]
        /\ lost' = [lost EXCEPT ![c] = @ + (Len(payloads) - Len(events))]
        /\ inflight' = IF events = <<>> THEN infl
                       ELSE [infl EXCEPT ![win] = @ \o events]
        /\ idAtHandshake' = IF ~handshaken[c] /\ s.handshaken
                            THEN [idAtHandshake EXCEPT ![c] = _id[c]]
                            ELSE idAtHandshake

----------------------------------------------------------------------------
\* Operations.

\* new Talker(win, origin) in window c, followed in the same script by
\* talker.onMessage = handler when the application registers one.
Construct(c, win, origin, handler) ==
    /\ ~constructed[c]
    /\ constructed' = [constructed EXCEPT ![c] = TRUE]
    /\ remoteWindow' = [remoteWindow EXCEPT ![c] = win]
    /\ remoteOrigin' = [remoteOrigin EXCEPT ![c] = origin]
    /\ onMessage' = [onMessage EXCEPT ![c] = handler]
    /\ Commit(c, win, origin, _sendHandshake(Cur(c), FALSE), inflight)
    /\ UNCHANGED <<_id, timers, created, expired, foreign, lastDrop>>

\* The inputs made so far.
Inputs == _id["A"] + _id["B"] + foreign

\* _nextId without the increment once an id has been handed out.
_nextIdReused(c) == IF _id[c] = 0 THEN 1 ELSE _id[c]

\* Talker.prototype._nextId: the value it returns and leaves in this._id.
_nextId(c) == _id[c] + 1

\* Talker.OutgoingMessage
OutgoingMessage(c, responseToId) == [id |-> _nextId(c), responseToId |-> responseToId]

\* Talker.prototype.send, as a step of window c.
send(c, responseToId) ==
    LET message == OutgoingMessage(c, responseToId)
        s1 == [Cur(c) EXCEPT !._sent = @ \cup {message.id},
                             !._queue = Append(@, message),
                             !.future[message.id] = Pending]
    IN  /\ constructed[c]
        /\ Inputs < MaxInputs
        /\ _id' = [_id EXCEPT ![c] = message.id]
        /\ created' = [created EXCEPT ![c] = Append(@, message)]
        /\ timers' = [timers EXCEPT ![c] = @ \cup {message.id}]
        /\ Commit(c, remoteWindow[c], remoteOrigin[c], _flushQueue(s1), inflight)
        /\ UNCHANGED <<constructed, remoteWindow, remoteOrigin, onMessage, expired, foreign,
                       lastDrop>>

\* talker.send(namespace, data): a message that answers nothing.
Send(c) == send(c, 0)

\* The IncomingMessages the application of window c holds: those onMessage was
\* called with and those its send promises resolved with.
Incoming(c) ==
    {onMessageLog[c][i].id : i \in 1..Len(onMessageLog[c])}
        \cup {future[c][k].value : k \in {j \in Ids : future[c][j].state = "resolved"}}

\* Talker.IncomingMessage.prototype.respond on an IncomingMessage with id k.
Respond(c, k) ==
    /\ k \in Incoming(c)
    /\ send(c, k)

\* The setTimeout callback of send id k: rejects the timeout promise of the race.
Timeout(c, k) ==
    /\ k \in timers[c]
    /\ timers' = [timers EXCEPT ![c] = @ \ {k}]
    /\ future' = [future EXCEPT ![c][k] = Settle(@, Rejected)]
    /\ expired' = IF \E i \in 1..Len(_queue[c]) : _queue[c][i].id = k
                  THEN [expired EXCEPT ![c] = @ \cup {k}]
                  ELSE expired
    /\ UNCHANGED <<constructed, remoteWindow, remoteOrigin, onMessage, handshaken,
                   handshake, _id, _queue, _sent, inflight, posted, lost, created,
                   onMessageLog, idAtHandshake, foreign, lastDrop>>

\* The 'message' listener of window c runs _receiveMessage on an event.
Receive(c, messageEvent, infl) ==
    LET object == Parse(messageEvent.data)
    IN  /\ Commit(c, remoteWindow[c], remoteOrigin[c], _receiveMessage(c, messageEvent), infl)
        /\ lastDrop' = IF _isSafeMessage(c, messageEvent.source, messageEvent.origin,
                                         object.type)
                       THEN lastDrop
                       ELSE [chan |-> c, why |-> Why(c, messageEvent)]
        /\ UNCHANGED <<constructed, remoteWindow, remoteOrigin, onMessage, _id, timers,
                       created, expired>>

\* The browser hands window c the oldest event in flight to it.
Deliver(c) ==
    /\ inflight[c] # <<>>
    /\ Receive(c, Head(inflight[c]), [inflight EXCEPT ![c] = Tail(@)])
    /\ UNCHANGED foreign

\* Window c receives an event that the peer's Talker did not post.
ReceiveForeign(c, n) ==
    LET messageEvent == ForeignEvents(c)[n]
    IN  /\ constructed[c]
        /\ Inputs < MaxInputs
        /\ Receive(c, messageEvent, inflight)
        /\ foreign' = foreign + 1

\* The arguments a Talker is constructed with: the peer's window and an origin
\* that admits it, or a missing window, or an empty origin.
PeerConfigs(c) == {<<Peer(c), Wildcard>>, <<Peer(c), Origin(Peer(c))>>}
Configs(c) == PeerConfigs(c) \cup {<<Null, Wildcard>>, <<Peer(c), "">>}

ConstructAny(c) ==
    \E cfg \in Configs(c), handler \in BOOLEAN : Construct(c, cfg[1], cfg[2], handler)

ConstructPeer(c) ==
    \E cfg \in PeerConfigs(c), handler \in BOOLEAN : Construct(c, cfg[1], cfg[2], handler)

\* Two windows with arbitrary constructor arguments and foreign events.
Next ==
    \/ \E c \in Chan : ConstructAny(c)
    \/ \E c \in Chan : Send(c)
    \/ \E c \in Chan, k \in Ids : Respond(c, k)
    \/ \E c \in Chan, k \in Ids : Timeout(c, k)
    \/ \E c \in Chan : Deliver(c)
    \/ \E c \in Chan : \E n \in 1..Len(ForeignEvents(c)) : ReceiveForeign(c, n)

Spec == Init /\ [][Next]_vars

\* Two peers that target each other, and no event but the ones they post.
NextPeers ==
    \/ \E c \in Chan : ConstructPeer(c)
    \/ \E c \in Chan : Send(c)
    \/ \E c \in Chan, k \in Ids : Respond(c, k)
    \/ \E c \in Chan, k \in Ids : Timeout(c, k)
    \/ \E c \in Chan : Deliver(c)

SpecPeers == Init /\ [][NextPeers]_vars

\* The same two peers, each with onMessage set, when both windows do construct
\* their Talker and the browser does deliver every event it has dispatched to a
\* listening window.
ConstructListening(c) ==
    \E cfg \in PeerConfigs(c) : Construct(c, cfg[1], cfg[2], TRUE)

NextListening ==
    \/ \E c \in Chan : ConstructListening(c)
    \/ \E c \in Chan : Send(c)
    \/ \E c \in Chan, k \in Ids : Respond(c, k)
    \/ \E c \in Chan, k \in Ids : Timeout(c, k)
    \/ \E c \in Chan : Deliver(c)

FairSpec ==
    /\ Init
    /\ [][NextListening]_vars
    /\ \A c \in Chan : WF_vars(ConstructListening(c)) /\ WF_vars(Deliver(c))

\* Other code in the peer's window posts to window c a Talker message that
\* claims to answer message 1: the event has the peer's window as source and
\* the peer's origin, and waits in flight like any other.
Unsolicited(c) ==
    Event(Peer(c), Origin(Peer(c)), Stringify(DataObject(TALKER_TYPE, 1, 1)))

PostUnsolicited(c) ==
    /\ constructed[c]
    /\ Inputs < MaxInputs
    /\ inflight' = [inflight EXCEPT ![c] = Append(@, Unsolicited(c))]
    /\ foreign' = foreign + 1
    /\ UNCHANGED <<chanVars, lastDrop>>

\* The two peers, and responses nobody asked for.
NextReplies ==
    \/ \E c \in Chan : ConstructPeer(c)
    \/ \E c \in Chan : Send(c)
    \/ \E c \in Chan, k \in Ids : Respond(c, k)
    \/ \E c \in Chan, k \in Ids : Timeout(c, k)
    \/ \E c \in Chan : Deliver(c)
    \/ \E c \in Chan : PostUnsolicited(c)

SpecReplies == Init /\ [][NextReplies]_vars

----------------------------------------------------------------------------
\* What the transport and the application observed, for the properties below.

\* window c's Talker has what _postMessage needs to post.
Configured(c) == remoteWindow[c] # Null /\ remoteOrigin[c] # ""

IsHandshakePayload(p) == p.object.handshake \/ p.object.handshakeConfirmation
IsDataPayload(p) == ~IsHandshakePayload(p)

\* The data messages window c gave to postMessage, oldest first, and their ids.
PostedData(c) == SelectSeq(posted[c], IsDataPayload)
PostedIds(c) == [i \in 1..Len(PostedData(c)) |-> PostedData(c)[i].object.id]
PostedHandshakes(c) == SelectSeq(posted[c], IsHandshakePayload)

\* <<1, ..., n>>
UpTo(n) == [i \in 1..n |-> i]

----------------------------------------------------------------------------
\* C1: the data messages a Talker posts are posted in the order their send calls
\* were issued (increasing id), and the sends issued while handshaken was false
\* are all posted, in that order, in the step that sets handshaken (a Talker
\* without remoteWindow or remoteOrigin posts none of them).
C1_IssueOrder ==
    /\ [](\A c \in Chan : \A i, j \in 1..Len(PostedIds(c)) :
              i < j => PostedIds(c)[i] < PostedIds(c)[j])
    /\ [][\A c \in Chan :
              (~handshaken[c] /\ handshaken'[c]) =>
                  PostedIds(c)' = IF Configured(c) THEN UpTo(_id[c]) ELSE <<>>]_vars

\* Two sends were queued before the handshake and the transport saw both, in order.
C1_Witness ==
    \E c \in Chan :
        /\ handshaken[c]
        /\ idAtHandshake[c] = 2
        /\ PostedIds(c) = <<1, 2>>

\* C2: while handshaken is false the Talker has posted no data message, only
\* handshakes, and its queue holds every message send created, in creation order.
C2_QueuedUntilHandshake ==
    \A c \in Chan :
        ~handshaken[c] =>
            /\ PostedData(c) = <<>>
            /\ _queue[c] = created[c]

\* A Talker that has posted its handshake and queued two sends, not yet handshaken.
C2_Witness ==
    \E c \in Chan :
        /\ constructed[c]
        /\ ~handshaken[c]
        /\ Len(posted[c]) = 1
        /\ Len(_queue[c]) = 2

\* C3: once handshaken is true the queue is empty after every operation: the
\* handshake handler drains it in the step that sets handshaken, and a send made
\* when handshaken is true hands its message to postMessage within the call (a
\* Talker without remoteWindow or remoteOrigin posts nothing and still queues
\* nothing).
C3_NoQueueOnceHandshaken ==
    /\ [](\A c \in Chan : handshaken[c] => _queue[c] = <<>>)
    /\ [][\A c \in Chan :
              (handshaken[c] /\ _id'[c] # _id[c]) =>
                  /\ Configured(c) =>
                        /\ Len(posted'[c]) = Len(posted[c]) + 1
                        /\ SubSeq(posted'[c], 1, Len(posted[c])) = posted[c]
                        /\ posted'[c][Len(posted'[c])].object.id = _id'[c]
                        /\ IsDataPayload(posted'[c][Len(posted'[c])])
                  /\ ~Configured(c) => posted'[c] = posted[c]]_vars

\* A Talker sent two messages after its handshake; the transport has both and
\* the queue is empty.
C3_Witness ==
    \E c \in Chan :
        /\ handshaken[c]
        /\ idAtHandshake[c] = 0
        /\ _id[c] = 2
        /\ _queue[c] = <<>>
        /\ PostedIds(c) = <<1, 2>>

\* C4: the messages a Talker creates through send and respond carry the ids
\* 1, 2, 3, ... in creation order, so no two share an id, and _id is the id
\* handed out last.
C4_UniqueIds ==
    \A c \in Chan :
        /\ Len(created[c]) = _id[c]
        /\ \A i \in 1..Len(created[c]) : created[c][i].id = i

\* A Talker has created two messages.
C4_Witness ==
    \E c \in Chan : Len(created[c]) = 2 /\ _id[c] = 2

----------------------------------------------------------------------------
\* Steps and events as the properties below speak of them.

\* This step is window c handling the oldest event in flight to it.
Delivered(c) == inflight[c] # <<>> /\ inflight'[c] = Tail(inflight[c])

\* The three conditions for accepting an event, on a payload that parses.
Accepts(c, messageEvent) ==
    /\ messageEvent.source = remoteWindow[c]
    /\ remoteOrigin[c] = "*" \/ messageEvent.origin = remoteOrigin[c]
    /\ messageEvent.data.parsable
    /\ messageEvent.data.object.type = "application/x-talkerjs-v1+json"

\* The event is an accepted data message that answers message k of window c.
IsResponseTo(c, messageEvent, k) ==
    /\ Accepts(c, messageEvent)
    /\ ~messageEvent.data.object.handshake
    /\ ~messageEvent.data.object.handshakeConfirmation
    /\ messageEvent.data.object.responseToId = k

\* This step is window c accepting a response to its message k.
ResponseArrives(c, k) == Delivered(c) /\ IsResponseTo(c, Head(inflight[c]), k)

\* This step is the timer of send k of window c firing.
TimerElapses(c, k) == k \in timers[c] /\ k \notin timers'[c]

----------------------------------------------------------------------------
\* C5: a message created by respond on an incoming message with id k carries
\* responseToId = k, the id of a message the peer created; and when window c
\* accepts a response to k while _sent holds k, the promise of send k is
\* resolved with that response, k leaves _sent and onMessage is not called.
C5_ResponseResolvesSend ==
    /\ [](\A c \in Chan : \A i \in 1..Len(created[c]) :
              created[c][i].responseToId # 0 =>
                  \E j \in 1..Len(created[Peer(c)]) :
                      created[Peer(c)][j].id = created[c][i].responseToId)
    /\ [][\A c \in Chan : \A k \in Ids :
              (ResponseArrives(c, k) /\ k \in _sent[c]) =>
                  /\ future'[c][k] =
                        [state |-> "resolved", value |-> Head(inflight[c]).data.object.id,
                         error |-> ""]
                  /\ k \notin _sent'[c]
                  /\ onMessageLog'[c] = onMessageLog[c]]_vars

\* C6: the promise returned by send settles at most once: the timer firing on a
\* pending promise rejects it, a response dispatched to a pending promise
\* resolves it with that response, and a settled promise never changes again,
\* whichever of the two events comes later.
C6_SettlesOnce ==
    [][\A c \in Chan : \A k \in Ids :
          /\ future[c][k].state \in {"resolved", "rejected"} =>
                future'[c][k] = future[c][k]
          /\ (future[c][k].state = "pending" /\ TimerElapses(c, k)) =>
                future'[c][k] = [state |-> "rejected", value |-> 0, error |-> "timeout"]
          /\ (future[c][k].state = "pending" /\ ResponseArrives(c, k)) =>
                future'[c][k] =
                    [state |-> "resolved", value |-> Head(inflight[c]).data.object.id,
                         error |-> ""]]_vars

\* A promise was resolved by its response and its timer fired afterwards.
C6_Witness ==
    \E c \in Chan : \E k \in Ids :
        /\ future[c][k].state = "resolved"
        /\ k \notin timers[c]
        /\ k \notin _sent[c]

\* C7 as claimed: after the timer of send k fired first, the promise is rejected
\* and a response to k accepted later is passed to a registered onMessage.
C7_LateResponseToOnMessage ==
    [][\A c \in Chan : \A k \in Ids :
          /\ (future[c][k].state = "pending" /\ TimerElapses(c, k)) =>
                future'[c][k] = [state |-> "rejected", value |-> 0, error |-> "timeout"]
          /\ (future[c][k].state = "rejected" /\ ResponseArrives(c, k) /\ onMessage[c]) =>
                /\ future'[c][k] = future[c][k]
                /\ onMessageLog'[c] =
                      Append(onMessageLog[c],
                             [id |-> Head(inflight[c]).data.object.id, responseToId |-> k])]_vars

\* C7 as amended: after the timer of send k fired first, the promise is rejected
\* with the timeout error; a response to k accepted later leaves the promise
\* rejected and is not passed to onMessage: it is dropped, and k leaves _sent.
C7_LateResponseDropped ==
    [][\A c \in Chan : \A k \in Ids :
          /\ (future[c][k].state = "pending" /\ TimerElapses(c, k)) =>
                future'[c][k] = [state |-> "rejected", value |-> 0, error |-> "timeout"]
          /\ (future[c][k].state = "rejected" /\ ResponseArrives(c, k)) =>
                /\ future'[c][k] = future[c][k]
                /\ onMessageLog'[c] = onMessageLog[c]
                /\ k \notin _sent'[c]]_vars

\* The timer of a send fired, its response was accepted afterwards by a Talker
\* with onMessage set, and onMessage was never called.
C7_Witness ==
    \E c \in Chan : \E k \in Ids :
        /\ onMessage[c]
        /\ future[c][k] = [state |-> "rejected", value |-> 0, error |-> "timeout"]
        /\ k \notin timers[c]
        /\ k \notin _sent[c]
        /\ onMessageLog[c] = <<>>

\* C8: an event that fails the source, origin or type condition, or whose
\* payload does not parse, changes nothing of the Talker that receives it:
\* handshaken, the handshake promise, _id, _queue, _sent and the send promises
\* stay as they are, nothing is posted and onMessage is not called.
C8_RejectedHasNoEffect ==
    /\ [][\A c \in Chan :
              (Delivered(c) /\ ~Accepts(c, Head(inflight[c]))) =>
                  /\ UNCHANGED chanVars
                  /\ inflight' = [inflight EXCEPT ![c] = Tail(@)]]_vars
    \* The same for an event the peer's Talker did not post, read the other way
    \* round: a step that changes anything is not the receipt of such an event.
    /\ [][(foreign' # foreign /\ ~UNCHANGED <<chanVars, inflight>>) =>
              \A c \in Chan : \A n \in 1..Len(ForeignEvents(c)) :
                  ~Accepts(c, ForeignEvents(c)[n]) => ~ReceiveForeign(c, n)]_vars

\* A Talker that is not handshaken and waits for the response to its message 1
\* has just rejected, for its type, an event from its peer's window that carries
\* the handshake flag and responseToId 1.
C8_Witness ==
    \E c \in Chan :
        /\ lastDrop = [chan |-> c, why |-> "type"]
        /\ ~handshaken[c]
        /\ handshake[c] = "pending"
        /\ _sent[c] = {1}
        /\ future[c][1].state = "pending"

----------------------------------------------------------------------------
\* C9: two peers that target each other, constructed in either order, both end
\* up handshaken for good, although the handshake request of the one constructed
\* first reached no listener.
C9_BothHandshaken == <>[](\A c \in Chan : handshaken[c])

\* Both are handshaken and the first handshake request of one of them was lost.
C9_Witness ==
    /\ \A c \in Chan : handshaken[c]
    /\ \E c \in Chan :
        /\ lost[c] = 1
        /\ posted[c][1] = Stringify(HandshakeObject(FALSE))

\* A handshake confirmation, and no handshake message left in flight.
IsConfirmation(messageEvent) ==
    /\ messageEvent.data.object.handshakeConfirmation
    /\ ~messageEvent.data.object.handshake

NoHandshakeInFlight ==
    \A c \in Chan : \A i \in 1..Len(inflight[c]) : IsDataPayload(inflight[c][i].data)

\* C10: a Talker that accepts a handshake confirmation posts no handshake in
\* reply; a Talker posts at most three handshake messages in all, and in the end
\* no handshake message is in flight.
C10_HandshakeTerminates ==
    /\ [][\A c \in Chan :
              (Delivered(c) /\ Accepts(c, Head(inflight[c]))
                            /\ IsConfirmation(Head(inflight[c]))) =>
                  PostedHandshakes(c)' = PostedHandshakes(c)]_vars
    /\ [](\A c \in Chan : Len(PostedHandshakes(c)) <= 3)
    /\ <>[]NoHandshakeInFlight

\* The exchange is over: a Talker posted its three handshake messages, the last
\* one a confirmation, its peer has handled them, and nothing is in flight.
C10_Witness ==
    /\ \A c \in Chan : handshaken[c] /\ inflight[c] = <<>>
    /\ \E c \in Chan :
        /\ Len(PostedHandshakes(c)) = 3
        /\ PostedHandshakes(c)[3] = Stringify(HandshakeObject(TRUE))

----------------------------------------------------------------------------
\* Events handled in a step, whoever posted them.

IsHandshakeEvent(messageEvent) ==
    messageEvent.data.object.handshake \/ messageEvent.data.object.handshakeConfirmation

IsRequest(messageEvent) == messageEvent.data.object.handshake

\* This step is window c accepting a handshake message, be it the oldest event
\* in flight or one its peer's Talker did not post.
AcceptedHandshake(c, messageEvent) ==
    Accepts(c, messageEvent) /\ IsHandshakeEvent(messageEvent)

HandshakeArrives(c) ==
    \/ Delivered(c) /\ AcceptedHandshake(c, Head(inflight[c]))
    \/ /\ foreign' # foreign
       /\ LET events == ForeignEvents(c)
          IN  \E n \in 1..Len(events) :
                  AcceptedHandshake(c, events[n]) /\ ReceiveForeign(c, n)

\* The same for a handshake request.
AcceptedRequest(c, messageEvent) ==
    Accepts(c, messageEvent) /\ IsRequest(messageEvent)

RequestArrives(c) ==
    \/ Delivered(c) /\ AcceptedRequest(c, Head(inflight[c]))
    \/ /\ foreign' # foreign
       /\ LET events == ForeignEvents(c)
          IN  \E n \in 1..Len(events) :
                  AcceptedRequest(c, events[n]) /\ ReceiveForeign(c, n)

\* This step is window c accepting a response to its message k that its peer's
\* Talker did not post.
ForeignResponseArrives(c, k) ==
    /\ foreign' # foreign
    /\ LET events == ForeignEvents(c)
       IN  \E n \in 1..Len(events) :
               IsResponseTo(c, events[n], k) /\ ReceiveForeign(c, n)

\* C11: handshaken is false when the Talker is constructed, becomes true only in
\* a step that handles an accepted handshake request or confirmation, never
\* goes back to false, and the handshake promise is resolved in exactly the
\* states where handshaken is true; once resolved it does not change.
C11_HandshakenMonotone ==
    /\ [](\A c \in Chan : handshaken[c] <=> handshake[c] = "resolved")
    /\ [][\A c \in Chan :
              /\ (~constructed[c] /\ constructed'[c]) =>
                    ~handshaken'[c] /\ handshake'[c] = "pending"
              /\ handshaken[c] => handshaken'[c] /\ handshake'[c] = handshake[c]
              /\ (~handshaken[c] /\ handshaken'[c]) => HandshakeArrives(c)]_vars

\* A handshaken Talker that has since handled a second handshake request (its
\* third handshake message answers it), sent a message and seen its timer fire.
C11_Witness ==
    \E c \in Chan :
        /\ handshaken[c]
        /\ handshake[c] = "resolved"
        /\ Len(PostedHandshakes(c)) = 3
        /\ idAtHandshake[c] = 0
        /\ future[c][1].state = "rejected"

\* This step is window c accepting a data message that answers nothing and
\* whose own id is k.
PlainArrives(c, k) ==
    /\ Delivered(c)
    /\ Accepts(c, Head(inflight[c]))
    /\ ~IsHandshakeEvent(Head(inflight[c]))
    /\ Head(inflight[c]).data.object.responseToId = 0
    /\ Head(inflight[c]).data.object.id = k

\* C12: the promise of send k becomes resolved only in a step that accepts a data
\* message with responseToId = k: not in a handshake step, not when a timer
\* fires, and not when a message with responseToId null and id k is accepted
\* while k is in _sent; that message is passed to onMessage when one is set,
\* and the entry for k and the promise stay as they are.
C12_ResolvedOnlyByResponse ==
    [][\A c \in Chan : \A k \in Ids :
          /\ (future[c][k].state # "resolved" /\ future'[c][k].state = "resolved") =>
                \/ ResponseArrives(c, k)
                \/ ForeignResponseArrives(c, k)
          /\ (PlainArrives(c, k) /\ k \in _sent[c]) =>
                /\ future'[c] = future[c]
                /\ _sent'[c] = _sent[c]
                /\ onMessageLog'[c] =
                      IF onMessage[c]
                      THEN Append(onMessageLog[c], [id |-> k, responseToId |-> 0])
                      ELSE onMessageLog[c]]_vars

\* A Talker waiting for the response to its message 1 was handed the peer's
\* message 1, which answers nothing: onMessage got it and the send still waits.
C12_Witness ==
    \E c \in Chan :
        /\ onMessageLog[c] = <<[id |-> 1, responseToId |-> 0]>>
        /\ 1 \in _sent[c]
        /\ future[c][1].state = "pending"
        /\ handshaken[c]

----------------------------------------------------------------------------
\* The payloads of the two handshake messages.
Request == [parsable |-> TRUE,
            object |-> [type |-> "application/x-talkerjs-v1+json", handshake |-> TRUE,
                        handshakeConfirmation |-> FALSE, id |-> 0, responseToId |-> 0]]
Confirmation == [parsable |-> TRUE,
                 object |-> [type |-> "application/x-talkerjs-v1+json", handshake |-> FALSE,
                             handshakeConfirmation |-> TRUE, id |-> 0, responseToId |-> 0]]

\* What a step leaves of window c's Talker apart from what it posted.
TalkerUnchanged(c) ==
    /\ handshaken'[c] = handshaken[c]
    /\ handshake'[c] = handshake[c]
    /\ _id'[c] = _id[c]
    /\ _queue'[c] = _queue[c]
    /\ _sent'[c] = _sent[c]
    /\ future'[c] = future[c]
    /\ timers'[c] = timers[c]
    /\ onMessageLog'[c] = onMessageLog[c]

\* C13 as claimed: a Talker with remoteWindow and remoteOrigin that accepts a
\* handshake request while handshaken is false sets handshaken, resolves the
\* handshake promise and posts one handshake message, a confirmation.
C13_ReplyIsConfirmation ==
    [][\A c \in Chan :
          (~handshaken[c] /\ Configured(c)
                /\ RequestArrives(c)) =>
              /\ handshaken'[c]
              /\ handshake'[c] = "resolved"
              /\ PostedHandshakes(c)' = Append(PostedHandshakes(c), Confirmation)]_vars

\* C13 as amended: a Talker that accepts a handshake request while handshaken is
\* false sets handshaken, resolves the handshake promise and posts one handshake
\* message in reply, and that message is a handshake request, not a
\* confirmation (a Talker without remoteWindow or remoteOrigin posts nothing).
C13_ReplyIsRequest ==
    [][\A c \in Chan :
          (~handshaken[c]
                /\ RequestArrives(c)) =>
              /\ handshaken'[c]
              /\ handshake'[c] = "resolved"
              /\ PostedHandshakes(c)' =
                    IF Configured(c) THEN Append(PostedHandshakes(c), Request)
                    ELSE PostedHandshakes(c)]_vars

\* A Talker that had queued one send accepted its first handshake request: it
\* posted its own request, a second request in reply, and then the message.
C13_Witness ==
    \E c \in Chan :
        /\ handshaken[c]
        /\ idAtHandshake[c] = 1
        /\ Len(posted[c]) = 3
        /\ posted[c][1] = Request
        /\ posted[c][2] = Request
        /\ IsDataPayload(posted[c][3])

\* C14 as claimed: a handshaken Talker that accepts a further handshake message
\* of either kind changes nothing and posts nothing.
C14_NoReplyOnceHandshaken ==
    [][\A c \in Chan :
          (handshaken[c]
                /\ HandshakeArrives(c)) =>
              /\ TalkerUnchanged(c)
              /\ posted'[c] = posted[c]]_vars

\* C14 as amended: a handshaken Talker that accepts a further handshake message
\* changes none of its state; on a confirmation it posts nothing, and on a
\* request it posts exactly one message, a handshake confirmation (nothing
\* without remoteWindow or remoteOrigin).
C14_ConfirmsOnceHandshaken ==
    [][\A c \in Chan :
          (handshaken[c]
                /\ HandshakeArrives(c)) =>
              /\ TalkerUnchanged(c)
              /\ posted'[c] =
                    IF Configured(c)
                       /\ RequestArrives(c)
                    THEN Append(posted[c], Confirmation)
                    ELSE posted[c]]_vars

\* A handshaken Talker answered a second request with a confirmation, its peer,
\* handshaken as well, has handled that confirmation, and nothing else was posted.
C14_Witness ==
    \E c \in Chan :
        /\ handshaken[c]
        /\ posted[c] = <<Request, Request, Confirmation>>
        /\ handshaken[Peer(c)]
        /\ inflight[Peer(c)] = <<>>
        /\ _id[c] = 0

----------------------------------------------------------------------------
\* C15: an entry leaves _sent only when its response is dispatched or when the
\* timer of its send fires, and once that timer has fired _sent holds no entry
\* for the send.
C15_EntryReleased ==
    /\ [][\A c \in Chan : \A k \in Ids :
              (k \in _sent[c] /\ k \notin _sent'[c]) =>
                  ResponseArrives(c, k) \/ TimerElapses(c, k)]_vars
    /\ [](\A c \in Chan : \A k \in Ids :
              (future[c][k].state # "none" /\ k \notin timers[c]) => k \notin _sent[c])

\* This step is window c accepting a data message with responseToId k (0: null).
DataArrives(c, k) ==
    /\ Delivered(c)
    /\ Accepts(c, Head(inflight[c]))
    /\ ~IsHandshakeEvent(Head(inflight[c]))
    /\ Head(inflight[c]).data.object.responseToId = k

\* The IncomingMessage built from the event being handled.
Arrived(c) ==
    [id |-> Head(inflight[c]).data.object.id,
     responseToId |-> Head(inflight[c]).data.object.responseToId]

\* The promise of a send after its resolver was called with message.
Called(f, message) ==
    IF f.state = "pending"
    THEN [state |-> "resolved", value |-> message.id, error |-> ""]
    ELSE f

\* C16 as claimed: an accepted data message with a responseToId that has an
\* entry in _sent goes to that entry's resolver and the entry is removed; every
\* other accepted data message, one with a responseToId that has no entry
\* included, is passed to onMessage when one is set.
C16_NoEntryToOnMessage ==
    [][\A c \in Chan : \A k \in 0..MaxInputs :
          /\ (DataArrives(c, k) /\ k # 0 /\ k \in _sent[c]) =>
                /\ _sent'[c] = _sent[c] \ {k}
                /\ future'[c] = [future[c] EXCEPT ![k] = Called(@, Arrived(c))]
                /\ onMessageLog'[c] = onMessageLog[c]
          /\ (DataArrives(c, k) /\ (k = 0 \/ k \notin _sent[c])) =>
                /\ _sent'[c] = _sent[c]
                /\ future'[c] = future[c]
                /\ onMessageLog'[c] =
                      IF onMessage[c] THEN Append(onMessageLog[c], Arrived(c))
                      ELSE onMessageLog[c]]_vars

\* C16 as amended: an accepted data message with a non-null responseToId goes to
\* _respondToMessage and never to onMessage: with an entry in _sent the entry's
\* resolver is called and the entry removed, without one the message is dropped
\* and nothing changes; only a message with responseToId null is passed to
\* onMessage when one is set.
C16_RoutedByResponseToId ==
    [][\A c \in Chan : \A k \in 0..MaxInputs :
          /\ (DataArrives(c, k) /\ k # 0 /\ k \in _sent[c]) =>
                /\ _sent'[c] = _sent[c] \ {k}
                /\ future'[c] = [future[c] EXCEPT ![k] = Called(@, Arrived(c))]
                /\ onMessageLog'[c] = onMessageLog[c]
          /\ (DataArrives(c, k) /\ k # 0 /\ k \notin _sent[c]) =>
                /\ TalkerUnchanged(c)
                /\ posted'[c] = posted[c]
          /\ (DataArrives(c, k) /\ k = 0) =>
                /\ _sent'[c] = _sent[c]
                /\ future'[c] = future[c]
                /\ onMessageLog'[c] =
                      IF onMessage[c] THEN Append(onMessageLog[c], Arrived(c))
                      ELSE onMessageLog[c]]_vars

\* Two Talkers with onMessage set that never sent anything have handled a
\* message answering an id they never issued: onMessage was not called.
C16_Witness ==
    /\ foreign = 1
    /\ \A c \in Chan :
          /\ handshaken[c]
          /\ onMessage[c]
          /\ inflight[c] = <<>>
          /\ _id[c] = 0
          /\ onMessageLog[c] = <<>>

----------------------------------------------------------------------------
\* How often the message with id k was given to postMessage by window c, and
\* whether it is in the queue.
TimesPosted(c, k) ==
    Cardinality({j \in 1..Len(PostedIds(c)) : PostedIds(c)[j] = k})

Queued(c, k) == \E j \in 1..Len(_queue[c]) : _queue[c][j].id = k

\* C17: whatever the Talker was constructed with, every message send has
\* created is either still in the queue and was never posted, or has left the
\* queue and was posted exactly once.
C17_LeavesQueueByPost ==
    \A c \in Chan : \A k \in 1..Len(created[c]) :
        \/ Queued(c, k) /\ TimesPosted(c, k) = 0
        \/ ~Queued(c, k) /\ TimesPosted(c, k) = 1

\* C18: postMessage is called only by a Talker that has both remoteWindow and a
\* non-empty remoteOrigin.  Without one of them the constructor, the handshake
\* reply and send complete and post nothing: the handshake handler still sets
\* handshaken, send still hands out the next id, registers its entry and
\* starts its timer; and a promise of send is rejected only by its timer, with
\* the timeout error.
C18_PostsOnlyWhenConfigured ==
    /\ [](\A c \in Chan : ~Configured(c) => posted[c] = <<>>)
    /\ [][\A c \in Chan :
              /\ posted'[c] # posted[c] =>
                    remoteWindow'[c] # Null /\ remoteOrigin'[c] # ""
              /\ (~constructed[c] /\ constructed'[c] /\ ~Configured(c)') =>
                    posted'[c] = <<>> /\ inflight' = inflight
              /\ (~Configured(c)
                    /\ RequestArrives(c)) =>
                    handshaken'[c] /\ posted'[c] = <<>> /\ _queue'[c] = <<>>
              /\ (~Configured(c) /\ constructed[c] /\ _id'[c] # _id[c]) =>
                    /\ _id'[c] = _id[c] + 1
                    /\ _id'[c] \in _sent'[c]
                    /\ _id'[c] \in timers'[c]
                    /\ future'[c][_id'[c]].state = "pending"
                    /\ posted'[c] = <<>>
              /\ \A k \in Ids :
                    (future[c][k].state # "rejected" /\ future'[c][k].state = "rejected") =>
                        /\ TimerElapses(c, k)
                        /\ future'[c][k].error = "timeout"]_vars

\* A Talker constructed without a remote window was handshaken by an event with
\* no source, sent a message and saw it time out; nothing was ever posted.
C18_Witness ==
    \E c \in Chan :
        /\ constructed[c]
        /\ remoteWindow[c] = "null"
        /\ handshaken[c]
        /\ _id[c] = 1
        /\ future[c][1] = [state |-> "rejected", value |-> 0, error |-> "timeout"]
        /\ posted[c] = <<>>

\* C19: the timer of a send starts with the send call, also while handshaken is
\* false, and its firing leaves the queue and the transport alone: a message
\* whose timer fired while it was queued keeps its place in the queue until the
\* handshake, and is then posted with the other queued messages in creation
\* order (by a Talker that has remoteWindow and remoteOrigin).
C19_ExpiredStillPosted ==
    /\ [][\A c \in Chan :
              /\ _id'[c] # _id[c] => _id'[c] \in timers'[c]
              /\ \A k \in Ids :
                    TimerElapses(c, k) =>
                        _queue'[c] = _queue[c] /\ posted'[c] = posted[c]]_vars
    /\ [](\A c \in Chan : \A k \in expired[c] :
              /\ future[c][k].state = "rejected"
              /\ ~handshaken[c] =>
                    /\ k <= Len(_queue[c])
                    /\ _queue[c][k].id = k
              /\ (handshaken[c] /\ Configured(c)) =>
                    /\ k <= idAtHandshake[c]
                    /\ idAtHandshake[c] <= Len(PostedIds(c))
                    /\ \A i \in 1..idAtHandshake[c] : PostedIds(c)[i] = i)

\* The timer of message 1 fired while messages 1 and 2 were queued; after the
\* handshake the transport has both, 1 first, and only send 2 is still pending.
C19_Witness ==
    \E c \in Chan :
        /\ expired[c] = {1}
        /\ handshaken[c]
        /\ PostedIds(c) = <<1, 2>>
        /\ future[c][1].state = "rejected"
        /\ future[c][2].state = "pending"

\* The payloads of the messages in a queue, in order.
Payloads(queue) == [i \in 1..Len(queue) |-> Stringify(toJSON(queue[i]))]

\* C20: a Talker that has remoteWindow and remoteOrigin and accepts a handshake
\* request while handshaken is false posts, in that step, the handshake reply
\* first and the queued messages after it, so what it posts right after its
\* initial handshake request is a handshake message and not a data message.
C20_ReplyBeforeFlush ==
    [][\A c \in Chan :
          (~handshaken[c] /\ Configured(c)
                /\ RequestArrives(c)) =>
              /\ posted[c] = <<Request>>
              /\ posted'[c] = <<Request, Request>> \o Payloads(_queue[c])
              /\ IsHandshakePayload(posted'[c][2])]_vars

\* A Talker with two queued sends accepted a handshake request: it posted its
\* reply second and the two messages third and fourth.
C20_Witness ==
    \E c \in Chan :
        /\ handshaken[c]
        /\ idAtHandshake[c] = 2
        /\ Len(posted[c]) = 4
        /\ IsHandshakePayload(posted[c][2])
        /\ PostedIds(c) = <<1, 2>>
        /\ IsDataPayload(posted[c][3])
        /\ IsDataPayload(posted[c][4])

====
